---- MODULE Spec2Model ----
(***************************************************************************)
(* Learner-data transmission of edx-enterprise's integrated channels:      *)
(* LearnerTransmitter.transmit, assessment_level_transmit and              *)
(* single_learner_assessment_grade_transmit, run against a channel client  *)
(* (the partner API) and the channel's TransmissionAudit tables; and the   *)
(* API clients of enterprise.api_client: JwtLmsApiClient's token refresh,  *)
(* EnrollmentApiClient and EnterpriseCatalogApiClient.                     *)
(***************************************************************************)
EXTENDS Integers, Sequences, FiniteSets, TLC

(* ---------------------------------------------------------------- bounds *)
\* Transmitter runs started in one behaviour.
MaxRuns == 2
\* Failing answers (code >= 400, ClientError, other exception) the partner
\* API gives in one behaviour.
MaxFailures == 1

(* ------------------------------------------------------------- constants *)
\* HTTPStatus.BAD_REQUEST.value
BAD_REQUEST == 400
\* the literal of `body if code >= 400 else ''`
ERROR_CODE_FLOOR == 400

Workers == {1, 2}
Enrollments == {1, 2}
Grades == {"Pass", "Fail"}
Subsections == {"s1"}
NoSubsection == "none"
\* A message (response body, exception message) is a sequence of text pieces;
\* the empty text is << >>.
Bodies == {<< >>, <<"msg">>}
ReturnCodes == {200, 400}
ClientErrorCodes == {500}

(* --------------------------------------------------------------- helpers *)
\* str(code)
str(code) ==
    CASE code = 200 -> "200"
      [] code = 400 -> "400"
      [] code = 500 -> "500"

RECURSIVE Flatten(_)
Flatten(ss) == IF ss = << >> THEN << >> ELSE Head(ss) \o Flatten(Tail(ss))

Max(S) == CHOOSE x \in S : \A y \in S : y <= x

VARIABLES
    lms,                \* per enrollment: the learner's state in the LMS
    model_name,         \* kwargs' model_name: the audit model of this channel command
    audits,             \* the rows of that TransmissionAudit model, by id
    run,                \* per worker: the transmitter call in progress
    log,                \* per worker: what the current run did, in order
    prev,               \* per worker: summary of the run before the current
    nruns,              \* runs started
    failures,           \* failing answers given by the partner API
    jwt_client,         \* a JwtLmsApiClient, the clock and its call stack
    enrollment_client,  \* an EnrollmentApiClient call and the LMS behind it
    catalog_client      \* an EnterpriseCatalogApiClient call and its service

transmitterVars == <<lms, model_name, audits, run, log, prev, nruns, failures>>
apiVars == <<jwt_client, enrollment_client, catalog_client>>
vars == <<transmitterVars, apiVars>>

(* -------------------------------------------------------------- exporter *)
\* The two records the exporter yields for one enrollment: one by course
\* key, then one by course run id, with the same learner data.
CompletionRecords(e) ==
    LET rec(cid) == [enterprise_course_enrollment_id |-> e,
                     course_id |-> cid,
                     grade |-> lms[e].grade,
                     course_completed |-> lms[e].completed,
                     subsection_id |-> NoSubsection]
    IN  <<rec("course_key"), rec("course_run_id")>>

\* payload.export(**kwargs)
Export == Flatten([e \in 1..Cardinality(Enrollments) |-> CompletionRecords(e)])

\* One assessment record per subsection of the enrollment's course.
AssessmentRecords(e) ==
    LET subs == CHOOSE s \in [1..Cardinality(Subsections) -> Subsections] :
                    \A a, b \in DOMAIN s : a # b => s[a] # s[b]
    IN  [k \in DOMAIN subs |->
            [enterprise_course_enrollment_id |-> e,
             course_id |-> "course_run_id",
             grade |-> lms[e].grade,
             course_completed |-> lms[e].completed,
             subsection_id |-> subs[k]]]

\* exporter.bulk_assessment_level_export()
BulkAssessmentLevelExport ==
    Flatten([e \in 1..Cardinality(Enrollments) |-> AssessmentRecords(e)])

\* exporter.single_assessment_level_export(**kwargs), for the learner of
\* enrollment e
SingleAssessmentLevelExport(e) == AssessmentRecords(e)

(* ----------------------------------------------------------------- dedup *)
\* integrated_channels.utils.is_already_transmitted: the latest row of the
\* enrollment (and subsection, when given) saved with an empty
\* error_message carries this grade.
is_already_transmitted(table, enrollment_id, grade, subsection_id) ==
    LET Match(r) == /\ r.enterprise_course_enrollment_id = enrollment_id
                    /\ r.error_message = << >>
                    /\ (subsection_id # NoSubsection => r.subsection_id = subsection_id)
        ids == {k \in 1..Len(table) : Match(table[k])}
    IN  ids # {} /\ table[Max(ids)].grade = grade

(* ------------------------------------------------------------------ init *)
\* kwargs.get('model_name', 'LearnerDataTransmissionAudit'): the completion
\* commands use the learner data audit model, the assessment commands the
\* assessment audit model.
CompletionModel == "LearnerDataTransmissionAudit"
AssessmentModel == "LearnerAssessmentDataTransmissionAudit"
ModelNames == {CompletionModel, AssessmentModel}

IdleRun == [pc |-> "idle", kind |-> "none", records |-> << >>, i |-> 0,
            code |-> 0, body |-> << >>]
NoPrev == [kind |-> "none", records |-> << >>, pc |-> "idle", ncalls |-> 0,
           all_ok |-> FALSE]

InProgress == [completed |-> FALSE, grade |-> "In Progress"]

\* The transmitters construct no API client of enterprise.api_client.
NotConstructed == [pc |-> "none"]

Init ==
    /\ lms = [e \in Enrollments |-> InProgress]
    /\ model_name \in ModelNames
    /\ audits = << >>
    /\ run = [p \in Workers |-> IdleRun]
    /\ log = [p \in Workers |-> << >>]
    /\ prev = [p \in Workers |-> NoPrev]
    /\ nruns = 0
    /\ failures = 0
    /\ jwt_client = NotConstructed
    /\ enrollment_client = NotConstructed
    /\ catalog_client = NotConstructed

(* ------------------------------------------------------- the partner API *)
\* What a call of the channel client can do: return (code, body), raise
\* ClientError(message, status_code), or raise anything else.
Responses ==
    [kind : {"returned"}, code : ReturnCodes, body : Bodies]
    \cup [kind : {"client_error"}, code : ClientErrorCodes, body : Bodies]
    \cup [kind : {"exception"}, code : {0}, body : {<< >>}]

Failing(resp) == resp.kind # "returned" \/ resp.code >= BAD_REQUEST

\* The partner API answers a call with resp, within the failure budget.
Answers(resp) ==
    /\ Failing(resp) => failures < MaxFailures
    /\ failures' = IF Failing(resp) THEN failures + 1 ELSE failures

(* ------------------------------------------------------------ run state *)
Cur(p) == run[p].records[run[p].i]
AtRecord(p, kind) ==
    /\ run[p].kind = kind
    /\ run[p].pc = "loop"
    /\ run[p].i <= Len(run[p].records)
Event(p, ev, code, id) == [i |-> run[p].i, ev |-> ev, code |-> code, id |-> id]
Calls(l) == {k \in 1..Len(l) : l[k].ev \in {"returned", "client_error", "exception"}}
Saves(l) == {k \in 1..Len(l) : l[k].ev = "save"}

\* What is remembered of a run when the next one starts.
Summary(p) ==
    [kind |-> run[p].kind, records |-> run[p].records, pc |-> run[p].pc,
     ncalls |-> Cardinality(Calls(log[p])),
     all_ok |-> \A k \in Calls(log[p]) :
                    log[p][k].ev = "returned" /\ log[p][k].code < BAD_REQUEST]

\* TransmissionAudit(...) as the exporter builds it, with the two fields the
\* transmitter sets before save().
Row(learner_data, status, error_message) ==
    [enterprise_course_enrollment_id |-> learner_data.enterprise_course_enrollment_id,
     course_id |-> learner_data.course_id,
     grade |-> learner_data.grade,
     subsection_id |-> learner_data.subsection_id,
     status |-> status,
     error_message |-> error_message]

\* (mutant) the body is kept as error_message whatever the code.
WithResult_KeepBody(learner_data, code, body) == Row(learner_data, str(code), body)

\* learner_data.status = str(code)
\* learner_data.error_message = body if code >= 400 else ''
WithResult(learner_data, code, body) ==
    Row(learner_data, str(code), IF code >= ERROR_CODE_FLOOR THEN body ELSE << >>)

\* A transmitter method is entered: the exporter's records are taken and the
\* loop starts at the first.
Begin(p, kind, model, records) ==
    /\ model_name = model
    /\ run[p].pc \in {"idle", "done", "raised"}
    /\ nruns < MaxRuns
    /\ nruns' = nruns + 1
    /\ prev' = [prev EXCEPT ![p] = Summary(p)]
    /\ log' = [log EXCEPT ![p] = << >>]
    /\ run' = [run EXCEPT ![p] = [pc |-> "loop", kind |-> kind, records |-> records,
                                  i |-> 1, code |-> 0, body |-> << >>]]
    /\ UNCHANGED <<apiVars, lms, model_name, audits, failures>>

\* `continue`: on to the next record.
Continue(p, ev) ==
    /\ run' = [run EXCEPT ![p].i = @ + 1]
    /\ log' = [log EXCEPT ![p] = Append(@, Event(p, ev, 0, 0))]
    /\ UNCHANGED <<apiVars, lms, model_name, audits, prev, nruns, failures>>

\* The dedup check found nothing sent: the try block is entered.
Try(p) ==
    /\ run' = [run EXCEPT ![p].pc = "send"]
    /\ log' = [log EXCEPT ![p] = Append(@, Event(p, "checked", 0, 0))]
    /\ UNCHANGED <<apiVars, lms, model_name, audits, prev, nruns, failures>>

(* -------------------------------------------------------------- transmit *)
StartTransmit(p) == Begin(p, "transmit", CompletionModel, Export)

\* (mutant) an in-progress record falls through to the transmission.
SkipInProgress_FallsThrough(p) ==
    /\ AtRecord(p, "transmit")
    /\ ~Cur(p).course_completed
    /\ Try(p)

\* if not learner_data.course_completed: ... continue
SkipInProgress(p) ==
    /\ AtRecord(p, "transmit")
    /\ ~Cur(p).course_completed
    /\ Continue(p, "skip_in_progress")

\* (mutant) the dedup check never finds a record sent.
PreviouslySent_Never(p) == FALSE

\* grade = getattr(learner_data, 'grade', None)
\* is_already_transmitted(TransmissionAudit, enterprise_enrollment_id, grade)
PreviouslySent(p) ==
    is_already_transmitted(audits, Cur(p).enterprise_course_enrollment_id,
                           Cur(p).grade, NoSubsection)

\* if is_already_transmitted(...): ... continue
SkipPreviouslySent(p) ==
    /\ AtRecord(p, "transmit")
    /\ Cur(p).course_completed
    /\ PreviouslySent(p)
    /\ Continue(p, "skip_previously_sent")

\* (mutant) the dedup check's answer is ignored.
NotYetSent_Unchecked(p) ==
    /\ AtRecord(p, "transmit")
    /\ Cur(p).course_completed
    /\ Try(p)

\* The record passed both checks.
NotYetSent(p) ==
    /\ AtRecord(p, "transmit")
    /\ Cur(p).course_completed
    /\ ~PreviouslySent(p)
    /\ Try(p)

\* raise ClientError(f'Client create_course_completion failed: {body}', code)
CompletionFailed(body) == <<"Client create_course_completion failed: ">> \o body

\* (mutant) a ClientError is not handled: it ends the run like any exception.
AfterCall_ClientErrorBubbles(p, resp, code, body) ==
    /\ log' = [log EXCEPT ![p] = Append(@, Event(p, resp.kind, resp.code, 0))]
    /\ run' = [run EXCEPT ![p] =
                 IF resp.kind # "returned" \/ resp.code >= BAD_REQUEST
                 THEN [@ EXCEPT !.pc = "raised"]
                 ELSE [@ EXCEPT !.pc = "save", !.code = code, !.body = body]]
    /\ UNCHANGED <<apiVars, lms, model_name, audits, prev, nruns>>

\* (mutant) any other exception is handled like a ClientError: the record is
\* saved and the loop goes on.
AfterCall_ExceptionSwallowed(p, resp, code, body) ==
    /\ log' = [log EXCEPT ![p] = Append(@, Event(p, resp.kind, resp.code, 0))]
    /\ run' = [run EXCEPT ![p] = [@ EXCEPT !.pc = "save", !.code = code, !.body = body]]
    /\ UNCHANGED <<apiVars, lms, model_name, audits, prev, nruns>>

\* The state a client call leaves the run in: code and body set and on to
\* the save, or the exception bubbling out of the transmitter.
AfterCall(p, resp, code, body) ==
    /\ log' = [log EXCEPT ![p] = Append(@, Event(p, resp.kind, resp.code, 0))]
    /\ run' = [run EXCEPT ![p] =
                 IF resp.kind = "exception"
                 THEN [@ EXCEPT !.pc = "raised"]
                 ELSE [@ EXCEPT !.pc = "save", !.code = code, !.body = body]]
    /\ UNCHANGED <<apiVars, lms, model_name, audits, prev, nruns>>

\* try: code, body = self.client.create_course_completion(...)
\*      if code >= HTTPStatus.BAD_REQUEST.value: raise ClientError(...)
\* except ClientError: code, body = its status_code, message; log
\* except Exception: log; raise
CreateCourseCompletion(p) ==
    /\ run[p].kind = "transmit"
    /\ run[p].pc = "send"
    /\ \E resp \in Responses :
        /\ Answers(resp)
        /\ AfterCall(p, resp, resp.code,
                     IF resp.kind = "returned" /\ resp.code >= BAD_REQUEST
                     THEN CompletionFailed(resp.body) ELSE resp.body)

\* (mutant) a failed record is saved and then sent again.
Save_RetriesFailure(p) ==
    /\ run[p].pc = "save"
    /\ audits' = Append(audits, WithResult(Cur(p), run[p].code, run[p].body))
    /\ log' = [log EXCEPT ![p] = Append(@, Event(p, "save", run[p].code, Len(audits) + 1))]
    /\ run' = [run EXCEPT ![p] =
                 IF run[p].code >= BAD_REQUEST
                 THEN [@ EXCEPT !.pc = IF run[p].kind = "single_learner_assessment_grade_transmit"
                                       THEN "loop" ELSE "send"]
                 ELSE [@ EXCEPT !.pc = "loop", !.i = @ + 1]]
    /\ UNCHANGED <<apiVars, lms, model_name, prev, nruns, failures>>

\* learner_data.status = ...; learner_data.error_message = ...;
\* learner_data.save(): a new row of the audit table; then the next record
\* (code and body are dead until the next call assigns them).
Save(p) ==
    /\ run[p].pc = "save"
    /\ audits' = Append(audits, WithResult(Cur(p), run[p].code, run[p].body))
    /\ log' = [log EXCEPT ![p] = Append(@, Event(p, "save", run[p].code, Len(audits) + 1))]
    /\ run' = [run EXCEPT ![p].pc = "loop", ![p].i = @ + 1,
                           ![p].code = 0, ![p].body = << >>]
    /\ UNCHANGED <<apiVars, lms, model_name, prev, nruns, failures>>

\* (mutant) the record is not saved before the loop goes on.
SaveCompletion_Unsaved(p) ==
    /\ run[p].kind = "transmit"
    /\ run[p].pc = "save"
    /\ log' = [log EXCEPT ![p] = Append(@, Event(p, "save", run[p].code, 0))]
    /\ run' = [run EXCEPT ![p].pc = "loop", ![p].i = @ + 1]
    /\ UNCHANGED <<apiVars, lms, model_name, audits, prev, nruns, failures>>

SaveCompletion(p) ==
    /\ run[p].kind = "transmit"
    /\ Save(p)

\* The exporter is exhausted: the method returns.
Return(p) ==
    /\ run[p].pc = "loop"
    /\ run[p].i > Len(run[p].records)
    /\ run' = [run EXCEPT ![p].pc = "done"]
    /\ UNCHANGED <<apiVars, lms, model_name, audits, log, prev, nruns, failures>>

(* ------------------------------------------- assessment_level_transmit *)
StartAssessmentLevel(p) == Begin(p, "assessment_level_transmit", AssessmentModel, BulkAssessmentLevelExport)

\* is_already_transmitted(TransmissionAudit, enterprise_enrollment_id,
\*                        learner_data.grade, learner_data.subsection_id)
AssessmentPreviouslySent(p) ==
    is_already_transmitted(audits, Cur(p).enterprise_course_enrollment_id,
                           Cur(p).grade, Cur(p).subsection_id)

AssessmentSkipPreviouslySent(p) ==
    /\ AtRecord(p, "assessment_level_transmit")
    /\ AssessmentPreviouslySent(p)
    /\ Continue(p, "skip_previously_sent")

AssessmentNotYetSent(p) ==
    /\ AtRecord(p, "assessment_level_transmit")
    /\ ~AssessmentPreviouslySent(p)
    /\ Try(p)

\* try: code, body = self.client.create_assessment_reporting(...)
\* except ClientError: code, body = its status_code, message; log
\* except Exception: log; raise
CreateAssessmentReporting(p) ==
    /\ run[p].kind = "assessment_level_transmit"
    /\ run[p].pc = "send"
    /\ \E resp \in Responses :
        /\ Answers(resp)
        /\ AfterCall(p, resp, resp.code, resp.body)

SaveAssessment(p) ==
    /\ run[p].kind = "assessment_level_transmit"
    /\ Save(p)

(* ---------------------------- single_learner_assessment_grade_transmit *)
StartSingleLearner(p) ==
    \E e \in Enrollments :
        Begin(p, "single_learner_assessment_grade_transmit", AssessmentModel,
              SingleAssessmentLevelExport(e))

\* No dedup check here: every exported record goes to the client.
SingleCreateAssessmentReporting(p) ==
    /\ AtRecord(p, "single_learner_assessment_grade_transmit")
    /\ \E resp \in Responses :
        /\ Answers(resp)
        /\ AfterCall(p, resp, resp.code, resp.body)

SaveSingleLearner(p) ==
    /\ run[p].kind = "single_learner_assessment_grade_transmit"
    /\ Save(p)

(* ------------------------------------------------------------------- LMS *)
\* Between runs a learner completes the course with a grade, or the grade
\* of a completed course changes (while a run that will read it can still
\* start).
LmsChange(e, g) ==
    /\ \A p \in Workers : run[p].pc \in {"idle", "done", "raised"}
    /\ nruns < MaxRuns
    /\ lms[e] # [completed |-> TRUE, grade |-> g]
    /\ lms' = [lms EXCEPT ![e] = [completed |-> TRUE, grade |-> g]]
    /\ UNCHANGED <<apiVars, model_name, audits, run, log, prev, nruns, failures>>

(* --------------------------------------------------------- specification *)
\* One transmitter at a time (the management command's runs, in sequence).
Next ==
    \/ \E e \in Enrollments, g \in Grades : LmsChange(e, g)
    \/ StartTransmit(1)
    \/ SkipInProgress(1)
    \/ SkipPreviouslySent(1)
    \/ NotYetSent(1)
    \/ CreateCourseCompletion(1)
    \/ SaveCompletion(1)
    \/ StartAssessmentLevel(1)
    \/ AssessmentSkipPreviouslySent(1)
    \/ AssessmentNotYetSent(1)
    \/ CreateAssessmentReporting(1)
    \/ SaveAssessment(1)
    \/ StartSingleLearner(1)
    \/ SingleCreateAssessmentReporting(1)
    \/ SaveSingleLearner(1)
    \/ Return(1)

Spec == Init /\ [][Next]_vars

\* Two transmit runs of one channel configuration at the same time (two
\* invocations of the management command): each step of either is one
\* database read, one client call or one save.
InitConc == Init /\ model_name = CompletionModel

NextConc ==
    \/ \E e \in Enrollments, g \in Grades : LmsChange(e, g)
    \/ \E p \in Workers :
        \/ StartTransmit(p)
        \/ SkipInProgress(p)
        \/ SkipPreviouslySent(p)
        \/ NotYetSent(p)
        \/ CreateCourseCompletion(p)
        \/ SaveCompletion(p)
        \/ Return(p)

SpecConc == InitConc /\ [][NextConc]_vars

(* ======================================================= JwtLmsApiClient *)
\* The clock runs from 1 to MaxTime (int(time()) is positive).
MaxTime == 5
\* Calls of refresh_token-decorated methods made from outside the client.
MaxCalls == 3
\* expires_in is one of 1..MaxExpiresIn seconds.
MaxExpiresIn == 2
\* Decorated methods on the stack at once
\* (has_course_mode -> get_course_modes -> get_course_details).
MaxDepth == 3

\* One frame of refresh_token's inner(): what its token check answered, when,
\* and which connect() was the last before it; the connects it made, and
\* what the wrapped method found when it started.
NewFrame == [expired |-> FALSE, checked_at |-> 0, last_connect |-> 0, connects |-> 0,
             started |-> FALSE, client_at_start |-> "None", expired_at_start |-> FALSE]

\* JwtLmsApiClient.__init__: expires_at = 0, client = None.  jwt_builder
\* tells whether the module's JwtBuilder import succeeded; connected_at is
\* the `now` of the last connect() that went through (0: none has).
InitJwt ==
    /\ \E x \in 1..MaxExpiresIn, b \in BOOLEAN :
          jwt_client = [now |-> 1, expires_in |-> x, expires_at |-> 0, client |-> "None",
                        jwt_builder |-> b, t |-> 0, connected_at |-> 0,
                        pc |-> "idle", stack |-> << >>, calls |-> 0]
    /\ lms = [e \in Enrollments |-> InProgress]
    /\ model_name = CompletionModel
    /\ audits = << >>
    /\ run = [p \in Workers |-> IdleRun]
    /\ log = [p \in Workers |-> << >>]
    /\ prev = [p \in Workers |-> NoPrev]
    /\ nruns = 0
    /\ failures = 0
    /\ enrollment_client = NotConstructed
    /\ catalog_client = NotConstructed

JwtStep == UNCHANGED <<transmitterVars, enrollment_client, catalog_client>>

\* A second passes, at any point of a call or between calls.
Tick ==
    /\ jwt_client.now < MaxTime
    /\ jwt_client' = [jwt_client EXCEPT !.now = @ + 1]
    /\ JwtStep

\* (mutant) the token counts as expired from the second it expires in.
token_expired_AtExpiry == jwt_client.now >= jwt_client.expires_at

\* return int(time()) > self.expires_at
token_expired == jwt_client.now > jwt_client.expires_at

\* A decorated method is called from outside: inner() is entered.
Call ==
    /\ jwt_client.pc \in {"idle", "raised"}
    /\ jwt_client.calls < MaxCalls
    /\ jwt_client' = [jwt_client EXCEPT !.pc = "check", !.stack = <<NewFrame>>,
                                        !.calls = @ + 1]
    /\ JwtStep

\* The running method calls another decorated method of the client.
NestedCall ==
    /\ jwt_client.pc = "running"
    /\ Len(jwt_client.stack) < MaxDepth
    /\ jwt_client' = [jwt_client EXCEPT !.pc = "check", !.stack = <<NewFrame>> \o @]
    /\ JwtStep

\* (mutant) inner() goes to the wrapped method whatever the token's state.
CheckToken_NeverConnects ==
    /\ jwt_client.pc = "check"
    /\ jwt_client' = [jwt_client EXCEPT !.pc = "func",
                                        !.stack[1].expired = token_expired,
                                        !.stack[1].checked_at = jwt_client.now,
                                        !.stack[1].last_connect = jwt_client.connected_at]
    /\ JwtStep

\* if self.token_expired(): self.connect()
CheckToken ==
    /\ jwt_client.pc = "check"
    /\ jwt_client' = [jwt_client EXCEPT !.pc = IF token_expired THEN "connect" ELSE "func",
                                        !.stack[1].expired = token_expired,
                                        !.stack[1].checked_at = jwt_client.now,
                                        !.stack[1].last_connect = jwt_client.connected_at]
    /\ JwtStep

\* connect(), up to the time reading: NotConnectedToOpenEdX when there is no
\* JwtBuilder (the exception leaves every frame), else now = int(time()).
connect ==
    /\ jwt_client.pc = "connect"
    /\ jwt_client' = IF jwt_client.jwt_builder
                     THEN [jwt_client EXCEPT !.pc = "create_jwt", !.t = jwt_client.now,
                                             !.stack[1].connects = @ + 1]
                     ELSE [jwt_client EXCEPT !.pc = "raised", !.stack = << >>]
    /\ JwtStep

\* connect(), the rest: the JWT is created, self.client is the new
\* EdxRestApiClient and self.expires_at = now + self.expires_in.
create_jwt_for_user ==
    /\ jwt_client.pc = "create_jwt"
    /\ jwt_client' = [jwt_client EXCEPT !.pc = "func", !.client = "EdxRestApiClient",
                                        !.expires_at = jwt_client.t + jwt_client.expires_in,
                                        !.connected_at = jwt_client.t]
    /\ JwtStep

\* return func(self, *args, **kwargs): the wrapped method starts.
func ==
    /\ jwt_client.pc = "func"
    /\ jwt_client' = [jwt_client EXCEPT !.pc = "running",
                                        !.stack[1].started = TRUE,
                                        !.stack[1].client_at_start = jwt_client.client,
                                        !.stack[1].expired_at_start = token_expired]
    /\ JwtStep

\* The wrapped method returns to its caller.
FuncReturn ==
    /\ jwt_client.pc = "running"
    /\ jwt_client' = [jwt_client EXCEPT !.stack = Tail(@),
                                        !.pc = IF Len(jwt_client.stack) = 1
                                               THEN "idle" ELSE "running"]
    /\ JwtStep

NextJwt ==
    \/ Tick
    \/ Call
    \/ NestedCall
    \/ CheckToken
    \/ connect
    \/ create_jwt_for_user
    \/ func
    \/ FuncReturn

SpecJwt == InitJwt /\ [][NextJwt]_vars

(* =================================================== EnrollmentApiClient *)
\* Course modes in one course-details answer.
MaxModes == 4

\* enterprise.constants
COURSE_MODE_SORT_ORDER == <<"verified", "professional", "no-id-professional", "audit", "honor">>
EXCLUDED_COURSE_MODES == <<"credit">>

Elements(seq) == {seq[k] : k \in DOMAIN seq}
IndexOf(seq, x) == CHOOSE k \in DOMAIN seq : seq[k] = x /\ \A j \in 1..(k - 1) : seq[j] # x

\* The slugs a course's modes are drawn from: some of the sort order, the
\* excluded one, and two the constants do not name.
Slugs == {"verified", "audit", "honor", "credit", "masters", "executive-education"}
ModeLists == UNION {[1..n -> [slug : Slugs]] : n \in 0..MaxModes}

\* Python's None, {} and a raised / returned outcome of a method.
None == [none |-> TRUE]
EmptyDict == << >>
Returned(v) == [outcome |-> "returned", value |-> v]
Raised(e) == [outcome |-> "raised", exc |-> e]

\* What the LMS holds for one user and course: no enrollment, or one that
\* is active or not.
EnrollmentStates == {None} \cup {[is_active |-> b] : b \in BOOLEAN}

\* An answer of the enrollment API to a GET or POST: a body, or an error.
ApiErrors == {"HttpNotFoundError", "HttpServerError", "ConnectionError", "Timeout"}
Ok(body) == [kind |-> "ok", body |-> body]
Error(e) == [kind |-> e]

(* ---------------------------------------------------------- course modes *)
\* (mutant) the weight is the slug's index in the sort order.
slug_weight_ByIndex(mode) ==
    IF mode.slug \in Elements(COURSE_MODE_SORT_ORDER)
    THEN IndexOf(COURSE_MODE_SORT_ORDER, mode.slug)
    ELSE 0

\* sorting_slugs_size - sorting_slugs.index(mode['slug']) for a slug of the
\* sort order, 0 for any other.
slug_weight(mode) ==
    IF mode.slug \in Elements(COURSE_MODE_SORT_ORDER)
    THEN Len(COURSE_MODE_SORT_ORDER) - (IndexOf(COURSE_MODE_SORT_ORDER, mode.slug) - 1)
    ELSE 0

\* sorted(..., reverse=True) is stable: an element goes behind every element
\* already placed whose key is not smaller.
RECURSIVE InsertByWeight(_, _)
InsertByWeight(sorted, mode) ==
    IF sorted = << >> \/ slug_weight(sorted[Len(sorted)]) >= slug_weight(mode)
    THEN Append(sorted, mode)
    ELSE Append(InsertByWeight(SubSeq(sorted, 1, Len(sorted) - 1), mode), sorted[Len(sorted)])

RECURSIVE SortedByWeight(_)
SortedByWeight(modes) ==
    IF modes = << >> THEN << >>
    ELSE InsertByWeight(SortedByWeight(SubSeq(modes, 1, Len(modes) - 1)), modes[Len(modes)])

\* return sorted(modes, key=slug_weight, reverse=True)
_sort_course_modes(modes) == SortedByWeight(modes)

\* try: return self.client.course(course_id).get()
\* except (SlumberBaseException, ConnectionError, Timeout): log; return {}
get_course_details(resp) == IF resp.kind = "ok" THEN resp.body ELSE EmptyDict

NotExcluded(mode) == mode.slug \notin Elements(EXCLUDED_COURSE_MODES)

\* details = self.get_course_details(course_id)
\* modes = details.get('course_modes', [])
\* return self._sort_course_modes([mode for mode in modes if ... not in EXCLUDED_COURSE_MODES])
get_course_modes_of(resp) ==
    LET details == get_course_details(resp)
        modes == IF "course_modes" \in DOMAIN details THEN details.course_modes ELSE << >>
    IN  _sort_course_modes(SelectSeq(modes, NotExcluded))

(* ----------------------------------------------------------- enrollments *)
\* try: result = endpoint.get()
\* except HttpNotFoundError: log; return None
\* if not result: log; return None
\* return result
\* (any other exception of the GET leaves the method)
get_course_enrollment(resp) ==
    IF resp.kind = "HttpNotFoundError" THEN Returned(None)
    ELSE IF resp.kind # "ok" THEN Raised(resp.kind)
    ELSE IF resp.body = None THEN Returned(None)
    ELSE Returned(resp.body)

\* enrollment = self.get_course_enrollment(username, course_run_id)
\* return enrollment is not None and enrollment.get('is_active', False)
is_enrolled_of(resp) ==
    LET enrollment == get_course_enrollment(resp)
    IN  IF enrollment.outcome = "raised" THEN enrollment
        ELSE Returned(enrollment.value # None /\ enrollment.value.is_active)

\* (mutant) any enrollment found is posted to, active or not.
ActiveEnrollment_Any(enrollment) == enrollment # None

\* if enrollment and enrollment['is_active']:
ActiveEnrollment(enrollment) == enrollment # None /\ enrollment.is_active

\* enrollment = self.get_course_enrollment(username, course_id)
\* if enrollment and enrollment['is_active']:
\*     response = self.client.enrollment.post({..., 'is_active': False})
\*     return not response['is_active']
\* return False
unenroll_user_from_course_of(resp, post) ==
    LET enrollment == get_course_enrollment(resp)
    IN  IF enrollment.outcome = "raised" THEN [out |-> enrollment, posted |-> FALSE]
        ELSE IF ActiveEnrollment(enrollment.value)
        THEN [out |-> IF post.kind = "ok" THEN Returned(~post.body.is_active)
                      ELSE Raised(post.kind),
              posted |-> TRUE]
        ELSE [out |-> Returned(FALSE), posted |-> FALSE]

Courses == {"course-1", "course-2"}

\* The answers the API can give for what the LMS holds: the enrollment of
\* the user in a course, the details of the course.
GetAnswers(c) == {Ok(enrollment_client.enrollment[c])} \cup {Error(e) : e \in ApiErrors}
PostAnswers == {Ok([is_active |-> b]) : b \in BOOLEAN} \cup {Error(e) : e \in ApiErrors}
DetailsAnswers ==
    {Ok([course_modes |-> enrollment_client.course_modes]), Ok([course_id |-> "course-1"])}
        \cup {Error(e) : e \in ApiErrors}

NoCall == [op |-> "none", course_id |-> "none", got |-> None, out |-> Returned(None),
           posted |-> FALSE, post |-> None]

ApiStep == UNCHANGED <<transmitterVars, jwt_client, catalog_client>>

\* The client of an LMS that holds the user's enrollments in the courses.
InitEnrollment ==
    /\ \E f \in [Courses -> EnrollmentStates] :
          enrollment_client = [course_modes |-> << >>, enrollment |-> f, last |-> NoCall]
    /\ lms = [e \in Enrollments |-> InProgress]
    /\ model_name = CompletionModel
    /\ audits = << >>
    /\ run = [p \in Workers |-> IdleRun]
    /\ log = [p \in Workers |-> << >>]
    /\ prev = [p \in Workers |-> NoPrev]
    /\ nruns = 0
    /\ failures = 0
    /\ jwt_client = NotConstructed
    /\ catalog_client = NotConstructed

\* return self.client.enrollment.post({..., 'is_active': True, ...})
enroll_user_in_course(c) ==
    /\ \E post \in PostAnswers :
          /\ post.kind = "ok" => post.body.is_active
          /\ enrollment_client' =
                [enrollment_client EXCEPT
                    !.enrollment[c] = IF post.kind = "ok" THEN post.body ELSE @,
                    !.last = [op |-> "enroll_user_in_course", course_id |-> c, got |-> None,
                              out |-> IF post.kind = "ok" THEN Returned(post.body)
                                      ELSE Raised(post.kind),
                              posted |-> TRUE, post |-> post]]
    /\ ApiStep

unenroll_user_from_course(c) ==
    /\ \E resp \in GetAnswers(c), post \in PostAnswers :
          LET r == unenroll_user_from_course_of(resp, post)
          IN  enrollment_client' =
                [enrollment_client EXCEPT
                    !.enrollment[c] = IF r.posted /\ post.kind = "ok" THEN post.body ELSE @,
                    !.last = [op |-> "unenroll_user_from_course", course_id |-> c,
                              got |-> resp, out |-> r.out, posted |-> r.posted,
                              post |-> IF r.posted THEN post ELSE None]]
    /\ ApiStep

is_enrolled(c) ==
    /\ \E resp \in GetAnswers(c) :
          enrollment_client' =
              [enrollment_client EXCEPT !.last =
                  [op |-> "is_enrolled", course_id |-> c, got |-> resp,
                   out |-> is_enrolled_of(resp), posted |-> FALSE, post |-> None]]
    /\ ApiStep

NextEnrollment ==
    \/ \E c \in Courses : enroll_user_in_course(c)
    \/ \E c \in Courses : unenroll_user_from_course(c)
    \/ \E c \in Courses : is_enrolled(c)

SpecEnrollment == InitEnrollment /\ [][NextEnrollment]_vars

\* The client of an LMS whose course has any list of modes.
InitCourseModes ==
    /\ \E m \in ModeLists :
          enrollment_client = [course_modes |-> m, enrollment |-> [c \in Courses |-> None],
                               last |-> NoCall]
    /\ lms = [e \in Enrollments |-> InProgress]
    /\ model_name = CompletionModel
    /\ audits = << >>
    /\ run = [p \in Workers |-> IdleRun]
    /\ log = [p \in Workers |-> << >>]
    /\ prev = [p \in Workers |-> NoPrev]
    /\ nruns = 0
    /\ failures = 0
    /\ jwt_client = NotConstructed
    /\ catalog_client = NotConstructed

get_course_modes ==
    /\ \E resp \in DetailsAnswers :
          enrollment_client' =
              [enrollment_client EXCEPT !.last =
                  [op |-> "get_course_modes", course_id |-> "course-1", got |-> resp,
                   out |-> Returned(get_course_modes_of(resp)),
                   posted |-> FALSE, post |-> None]]
    /\ ApiStep

NextCourseModes == get_course_modes

SpecCourseModes == InitCourseModes /\ [][NextCourseModes]_vars

(* ============================================ EnterpriseCatalogApiClient *)
\* Items one catalog of the service holds.
MaxItems == 2
\* settings.ENTERPRISE_CATALOG_GET_CONTENT_METADATA_PAGE_SIZE (scaled down)
GET_CONTENT_METADATA_PAGE_SIZE == 1

\* enterprise_customer.enterprise_customer_catalogs.all(), in order
CatalogOrder == <<"catalog-1", "catalog-2">>
Catalogs == Elements(CatalogOrder)

\* A content metadata item: its content id and the rest of it.
ContentIds == {"course-A", "course-B"}
Items == [id : ContentIds, title : {"old", "new"}]
ItemLists == UNION {[1..n -> Items] : n \in 0..MaxItems}

\* utils.get_content_metadata_item_id(item)
get_content_metadata_item_id(item) == item.id

\* The results of page number `page` of a catalog's content metadata.
Page(items, page) ==
    SubSeq(items, (page - 1) * GET_CONTENT_METADATA_PAGE_SIZE + 1,
           IF page * GET_CONTENT_METADATA_PAGE_SIZE < Len(items)
           THEN page * GET_CONTENT_METADATA_PAGE_SIZE ELSE Len(items))

\* response.get('next'): there is a page after this one.
HasNext(items, page) == page * GET_CONTENT_METADATA_PAGE_SIZE < Len(items)

\* (mutant) an id already in the dict keeps its first item.
SetItem_KeepFirst(od, key, value) ==
    IF \E k \in DOMAIN od : od[k].key = key THEN od
    ELSE Append(od, [key |-> key, value |-> value])

\* content_metadata[content_id] = item on an OrderedDict: a known key keeps
\* its place and takes the new value, a new key goes last.
SetItem(od, key, value) ==
    IF \E k \in DOMAIN od : od[k].key = key
    THEN [k \in DOMAIN od |-> IF od[k].key = key THEN [key |-> key, value |-> value] ELSE od[k]]
    ELSE Append(od, [key |-> key, value |-> value])

\* for item in ...: content_metadata[get_content_metadata_item_id(item)] = item
RECURSIVE SetItems(_, _)
SetItems(od, items) ==
    IF items = << >> THEN od
    ELSE SetItems(SetItem(od, get_content_metadata_item_id(Head(items)), Head(items)),
                  Tail(items))

\* list(content_metadata.values())
values(od) == [k \in DOMAIN od |-> od[k].value]

\* (mutant) with should_raise_exception the failure is raised.
get_enterprise_catalog_of_Raises(resp, should_raise_exception) ==
    IF resp.kind = "ok" THEN [out |-> Returned(resp.body), logged |-> FALSE]
    ELSE IF should_raise_exception THEN [out |-> Raised(resp.kind), logged |-> TRUE]
    ELSE [out |-> Returned(EmptyDict), logged |-> FALSE]

\* try: return endpoint.get()
\* except (SlumberBaseException, ConnectionError, Timeout) as exc:
\*     if should_raise_exception: LOGGER.exception(...)
\*     return {}
get_enterprise_catalog_of(resp, should_raise_exception) ==
    IF resp.kind = "ok" THEN [out |-> Returned(resp.body), logged |-> FALSE]
    ELSE [out |-> Returned(EmptyDict), logged |-> should_raise_exception]

NoCatalogCall == [op |-> "none", got |-> None, flag |-> FALSE, out |-> Returned(None),
                  logged |-> FALSE]

\* The client of a catalog service holding any content in the customer's
\* catalogs.
InitCatalog ==
    /\ \E f \in [Catalogs -> ItemLists] :
          catalog_client = [contents |-> f, pc |-> "idle", catalog |-> 0, page |-> 0,
                            content_metadata |-> << >>, out |-> Returned(None),
                            last |-> NoCatalogCall]
    /\ lms = [e \in Enrollments |-> InProgress]
    /\ model_name = CompletionModel
    /\ audits = << >>
    /\ run = [p \in Workers |-> IdleRun]
    /\ log = [p \in Workers |-> << >>]
    /\ prev = [p \in Workers |-> NoPrev]
    /\ nruns = 0
    /\ failures = 0
    /\ jwt_client = NotConstructed
    /\ enrollment_client = NotConstructed

CatalogStep == UNCHANGED <<transmitterVars, jwt_client, enrollment_client>>

get_enterprise_catalog(c, should_raise_exception) ==
    /\ catalog_client.pc = "idle"
    /\ \E resp \in {Ok([uuid |-> c])} \cup {Error(e) : e \in ApiErrors} :
          LET r == get_enterprise_catalog_of(resp, should_raise_exception)
          IN  catalog_client' =
                [catalog_client EXCEPT !.last =
                    [op |-> "get_enterprise_catalog", got |-> resp,
                     flag |-> should_raise_exception, out |-> r.out, logged |-> r.logged]]
    /\ CatalogStep

\* get_content_metadata is entered: content_metadata = OrderedDict(), and
\* the loop is at the first catalog.
get_content_metadata ==
    /\ catalog_client.pc = "idle"
    /\ catalog_client' = [catalog_client EXCEPT !.pc = "get", !.catalog = 1, !.page = 1,
                                                !.content_metadata = << >>,
                                                !.last = NoCatalogCall]
    /\ CatalogStep

\* One GET of the loop body, endpoint.get(**query) or a next page fetched by
\* utils.traverse_pagination: it fails and the exception is logged and
\* raised again, or its results go into content_metadata; after the last
\* page of the last catalog the values are returned.
FetchPage ==
    /\ catalog_client.pc = "get"
    /\ \E resp \in {Ok(Page(catalog_client.contents[CatalogOrder[catalog_client.catalog]],
                            catalog_client.page))}
                      \cup {Error(e) : e \in ApiErrors} :
          LET items == catalog_client.contents[CatalogOrder[catalog_client.catalog]]
              od == SetItems(catalog_client.content_metadata, resp.body)
          IN  catalog_client' =
                IF resp.kind # "ok"
                THEN [catalog_client EXCEPT !.pc = "raised", !.out = Raised(resp.kind)]
                ELSE IF HasNext(items, catalog_client.page)
                THEN [catalog_client EXCEPT !.page = @ + 1, !.content_metadata = od]
                ELSE IF catalog_client.catalog < Len(CatalogOrder)
                THEN [catalog_client EXCEPT !.catalog = @ + 1, !.page = 1,
                                            !.content_metadata = od]
                ELSE [catalog_client EXCEPT !.pc = "done", !.content_metadata = od,
                                            !.out = Returned(values(od))]
    /\ CatalogStep

NextCatalog ==
    \/ \E c \in Catalogs, should_raise_exception \in BOOLEAN :
          get_enterprise_catalog(c, should_raise_exception)
    \/ get_content_metadata
    \/ FetchPage

SpecCatalog == InitCatalog /\ [][NextCatalog]_vars

(* ================================================================ claims *)
EventsAt(l, i) == {k \in DOMAIN l : l[k].i = i}
CallsAt(l, i) == {k \in Calls(l) : l[k].i = i}
Succeeded(e) == e.ev = "returned" /\ e.code < BAD_REQUEST
ClientFailed(e) == e.ev = "client_error" \/ (e.ev = "returned" /\ e.code >= BAD_REQUEST)
Passed(p, i) == run[p].i > i

\* C1: in transmit, a completed record that is_already_transmitted reports
\* as sent is only skipped: the client is not called for it and no audit row
\* is saved for it (the run is in its try block or at its save only for a
\* record the dedup check does not report, and a skipped record has no other
\* event in the run).
C1_AlreadyTransmittedIsSkipped ==
    run[1].kind = "transmit" =>
        /\ run[1].pc \in {"send", "save"} => ~PreviouslySent(1)
        /\ \A k \in DOMAIN log[1] :
              log[1][k].ev = "skip_previously_sent" => EventsAt(log[1], log[1][k].i) = {k}

C1_Witness ==
    /\ run[1].kind = "transmit"
    /\ run[1].pc = "done"
    /\ \E k \in DOMAIN log[1] : log[1][k].ev = "skip_previously_sent"

\* C2: a transmit run over the same exported records as the transmit run
\* before it, which returned with every client call answered by a code below
\* 400, calls the client for no record and saves no audit row.
SecondRunOverSameRecords ==
    /\ run[1].kind = "transmit"
    /\ prev[1].kind = "transmit"
    /\ prev[1].pc = "done"
    /\ prev[1].all_ok
    /\ prev[1].records = run[1].records

C2_SecondRunSendsNothing ==
    SecondRunOverSameRecords =>
        /\ Calls(log[1]) = {}
        /\ Saves(log[1]) = {}
        /\ run[1].pc \notin {"send", "save", "raised"}

C2_Witness ==
    /\ SecondRunOverSameRecords
    /\ prev[1].ncalls = Cardinality(Enrollments)
    /\ run[1].pc = "done"

\* C3: when the call for an enrollment's course-key record returned a code
\* below 400, the course-run-id record that follows it is skipped as
\* previously sent, so the run makes exactly one call for that enrollment.
KeyThenRun(p, i) ==
    /\ i + 1 <= Len(run[p].records)
    /\ run[p].records[i].course_id = "course_key"
    /\ run[p].records[i + 1].course_id = "course_run_id"
    /\ run[p].records[i + 1].enterprise_course_enrollment_id
         = run[p].records[i].enterprise_course_enrollment_id
    /\ run[p].records[i + 1].grade = run[p].records[i].grade

C3_RunRecordSkippedAfterKeySuccess ==
    run[1].kind = "transmit" =>
        \A i \in DOMAIN run[1].records :
            (/\ KeyThenRun(1, i)
             /\ \E k \in CallsAt(log[1], i) : Succeeded(log[1][k])
             /\ Passed(1, i + 1))
            => /\ \A k \in EventsAt(log[1], i + 1) : log[1][k].ev = "skip_previously_sent"
               /\ Cardinality(CallsAt(log[1], i) \cup CallsAt(log[1], i + 1)) = 1

C3_Witness ==
    /\ run[1].kind = "transmit"
    /\ run[1].pc = "done"
    /\ \E i \in DOMAIN run[1].records :
          /\ KeyThenRun(1, i)
          /\ \E k \in CallsAt(log[1], i) : Succeeded(log[1][k])
          /\ \E k \in EventsAt(log[1], i + 1) : log[1][k].ev = "skip_previously_sent"

\* C4: when the call for an enrollment's course-key record failed (the
\* client raised ClientError or returned a code >= 400), the course-run-id
\* record that follows it is not skipped: the client is called for it too.
C4_RunRecordSentAfterKeyFailure ==
    run[1].kind = "transmit" =>
        \A i \in DOMAIN run[1].records :
            (/\ KeyThenRun(1, i)
             /\ \E k \in CallsAt(log[1], i) : ClientFailed(log[1][k])
             /\ Passed(1, i + 1))
            => CallsAt(log[1], i + 1) # {}

SavesAt(l, i) == {k \in Saves(l) : l[k].i = i}

C6_SavedOnceWithStatusAndError ==
    \A k \in Calls(log[1]) :
        log[1][k].ev # "exception" =>
            LET i == log[1][k].i
                code == log[1][k].code
            IN  /\ Cardinality(SavesAt(log[1], i)) = IF Passed(1, i) THEN 1 ELSE 0
                /\ \A m \in SavesAt(log[1], i) :
                      /\ audits[log[1][m].id].status = str(code)
                      /\ (audits[log[1][m].id].error_message = << >>) <=> (code < 400)

\* C7: in transmit, a failed client call (ClientError raised, or a code
\* >= 400 returned) does not end the run: the run ends early only on another
\* exception, and a run that returned has processed every record after the
\* failed one (in-progress ones skipped, the others checked and either
\* skipped as sent or sent to the client).
Processed(p, j) ==
    LET evs == {log[p][k].ev : k \in EventsAt(log[p], j)}
    IN  IF ~run[p].records[j].course_completed
        THEN evs = {"skip_in_progress"}
        ELSE \/ evs = {"skip_previously_sent"}
             \/ /\ "checked" \in evs
                /\ CallsAt(log[p], j) # {}

C7_ContinuesAfterFailure ==
    run[1].kind = "transmit" =>
        /\ run[1].pc = "raised" => log[1][Len(log[1])].ev = "exception"
        /\ \A k \in Calls(log[1]) :
              ClientFailed(log[1][k]) =>
                  (run[1].pc = "done" =>
                      \A j \in (log[1][k].i + 1)..Len(run[1].records) : Processed(1, j))

C7_Witness ==
    /\ run[1].kind = "transmit"
    /\ run[1].pc = "done"
    /\ \E k, m \in Calls(log[1]) :
          /\ ClientFailed(log[1][k])
          /\ log[1][m].i > log[1][k].i + 1
          /\ Succeeded(log[1][m])

\* C8: within one run of any of the three transmit methods the client is
\* called at most once for each exported record.
C8_AtMostOneCallPerRecord ==
    \A i \in DOMAIN run[1].records : Cardinality(CallsAt(log[1], i)) <= 1

C8_Witness ==
    /\ run[1].pc = "done"
    /\ \E k \in Calls(log[1]) : ClientFailed(log[1][k])
    /\ \E k \in Calls(log[1]) : Succeeded(log[1][k])

\* C9 (as stated): after any sequence of transmit runs the audit table holds
\* at most one row for each enrollment.
RowsOf(e) == {k \in DOMAIN audits : audits[k].enterprise_course_enrollment_id = e}

ErrorFreeRowsOf(e) == {k \in RowsOf(e) : audits[k].error_message = << >>}

SuccessfulSends(e, g) ==
    {pk \in UNION {{<<p, k>> : k \in Calls(log[p])} : p \in Workers} :
        /\ Succeeded(log[pk[1]][pk[2]])
        /\ run[pk[1]].records[log[pk[1]][pk[2]].i].enterprise_course_enrollment_id = e
        /\ run[pk[1]].records[log[pk[1]][pk[2]].i].grade = g}

C10_SentAtMostOnceWhenConcurrent ==
    (/\ run[1].kind = "transmit"
     /\ run[2].kind = "transmit"
     /\ run[1].records = run[2].records)
    => \A e \in Enrollments, g \in Grades : Cardinality(SuccessfulSends(e, g)) <= 1

\* C19: in the three transmit methods, an exception of the client call other
\* than ClientError ends the run once it is logged: it is the run's last
\* event, its record is not saved, no later record is processed, and the
\* rows the run saved before it are still in the audit table.
C19_OtherExceptionEndsRun ==
    \A k \in Calls(log[1]) :
        log[1][k].ev = "exception" =>
            LET i == log[1][k].i
            IN  /\ run[1].pc = "raised"
                /\ run[1].i = i
                /\ k = Len(log[1])
                /\ SavesAt(log[1], i) = {}
                /\ \A m \in DOMAIN log[1] : log[1][m].i <= i
                /\ \A m \in Saves(log[1]) :
                      /\ log[1][m].id \in DOMAIN audits
                      /\ audits[log[1][m].id].enterprise_course_enrollment_id
                           = run[1].records[log[1][m].i].enterprise_course_enrollment_id

C19_Witness ==
    /\ run[1].pc = "raised"
    /\ log[1][Len(log[1])].ev = "exception"
    /\ Saves(log[1]) # {}
    /\ run[1].i < Len(run[1].records)

\* C11: when a refresh_token-decorated method is invoked while
\* token_expired() is true (the first call of a new client included),
\* connect() has been called exactly once in that invocation when the
\* wrapped method starts.
Frames == {jwt_client.stack[k] : k \in DOMAIN jwt_client.stack}

C11_ConnectsOnceBeforeBody ==
    \A f \in Frames :
        /\ f.connects <= 1
        /\ (f.started /\ f.expired) => f.connects = 1

C11_Witness ==
    /\ jwt_client.calls >= 2
    /\ \E f \in Frames : f.started /\ f.expired /\ f.connects = 1 /\ f.checked_at > 1

\* C12: when the wrapped method of a refresh_token-decorated call starts,
\* self.client is not None and the token is not expired
\* (int(time()) <= self.expires_at); with no JwtBuilder connect() raises and
\* no wrapped method starts.
C12_TokenAliveAtBodyStart ==
    \A f \in Frames :
        f.started => /\ f.client_at_start # "None"
                     /\ ~f.expired_at_start

\* C13: token_expired() returns True exactly when the integer time is
\* strictly greater than t + expires_in, t being the time reading of the
\* last connect() before it, and True for a client that never connected.
C13_ExpiredExactlyAfterExpiry ==
    /\ \A f \in Frames :
          f.checked_at > 0 =>
              (f.expired <=> \/ f.last_connect = 0
                             \/ f.checked_at > f.last_connect + jwt_client.expires_in)
    /\ token_expired <=> \/ jwt_client.connected_at = 0
                         \/ jwt_client.now > jwt_client.connected_at + jwt_client.expires_in

C13_Witness ==
    /\ \E f \in Frames : f.checked_at > 0 /\ f.last_connect = 0 /\ f.expired
    /\ \E f \in Frames : /\ f.last_connect > 0
                         /\ f.checked_at = f.last_connect + jwt_client.expires_in
                         /\ ~f.expired
    /\ jwt_client.now > jwt_client.connected_at + jwt_client.expires_in
    /\ token_expired

\* C14: is_enrolled returns False under any error of the enrollment lookup
\* (a 404, a connection error, a timeout, another HTTP error) rather than
\* raising, and returns True only when an enrollment is found whose
\* is_active is true.
last == enrollment_client.last

C14_IsEnrolledFalseOnAnyError ==
    last.op = "is_enrolled" =>
        /\ last.out.outcome = "returned"
        /\ last.got.kind # "ok" => last.out.value = FALSE
        /\ last.out.value = TRUE => /\ last.got.kind = "ok"
                                    /\ last.got.body # None
                                    /\ last.got.body.is_active

\* C16: get_course_modes returns exactly the modes of the course details
\* whose slug is not in EXCLUDED_COURSE_MODES, those whose slug is in
\* COURSE_MODE_SORT_ORDER first and in the order of that constant, then all
\* the others in the order the details had them.
DetailsModes ==
    IF last.got.kind = "ok" /\ "course_modes" \in DOMAIN last.got.body
    THEN last.got.body.course_modes
    ELSE << >>

KeptModes == SelectSeq(DetailsModes, LAMBDA m : \A k \in DOMAIN EXCLUDED_COURSE_MODES :
                                                    m.slug # EXCLUDED_COURSE_MODES[k])

InSortOrder(m) == \E k \in DOMAIN COURSE_MODE_SORT_ORDER : m.slug = COURSE_MODE_SORT_ORDER[k]

C16_CourseModesFilteredAndSorted ==
    last.op = "get_course_modes" =>
        /\ last.out.outcome = "returned"
        /\ last.out.value =
              Flatten([k \in DOMAIN COURSE_MODE_SORT_ORDER |->
                          SelectSeq(KeptModes, LAMBDA m : m.slug = COURSE_MODE_SORT_ORDER[k])])
                \o SelectSeq(KeptModes, LAMBDA m : ~InSortOrder(m))

C16_Witness ==
    /\ last.op = "get_course_modes"
    /\ Len(DetailsModes) = 4
    /\ Len(last.out.value) = 3
    /\ ~InSortOrder(DetailsModes[1])
    /\ InSortOrder(DetailsModes[4])
    /\ last.out.value[1] = DetailsModes[4]
    /\ ~InSortOrder(last.out.value[2])
    /\ ~InSortOrder(last.out.value[3])
    /\ last.out.value[2] # last.out.value[3]

\* C17: unenroll_user_from_course returns True only when the lookup found
\* an active enrollment and the answer to the POST reports is_active false;
\* when the lookup found no enrollment or an inactive one, it returns False
\* and posts nothing.
FoundEnrollment ==
    IF last.got.kind = "ok" /\ last.got.body # None THEN last.got.body ELSE None

C17_UnenrollPostsOnlyForActive ==
    (last.op = "unenroll_user_from_course" /\ last.out.outcome = "returned") =>
        /\ last.out.value = TRUE =>
              /\ FoundEnrollment # None
              /\ FoundEnrollment.is_active
              /\ last.posted
              /\ last.post.kind = "ok"
              /\ ~last.post.body.is_active
        /\ (FoundEnrollment = None \/ ~FoundEnrollment.is_active) =>
              /\ last.out.value = FALSE
              /\ ~last.posted

C17_Witness ==
    /\ last.op = "unenroll_user_from_course"
    /\ last.out = Returned(TRUE)
    /\ enrollment_client.enrollment[last.course_id] = [is_active |-> FALSE]
    /\ \E c \in Courses : enrollment_client.enrollment[c] = None

C17_WitnessNotPosted ==
    /\ last.op = "unenroll_user_from_course"
    /\ last.out = Returned(FALSE)
    /\ FoundEnrollment = [is_active |-> FALSE]
    /\ ~last.posted

\* C15: get_content_metadata returns one item for each distinct content id:
\* every id seen on any page of any catalog appears exactly once in the
\* result, the item kept for an id is the last one seen with it, and the
\* result is ordered by the first appearance of the ids.
SeenItems == Flatten([k \in DOMAIN CatalogOrder |-> catalog_client.contents[CatalogOrder[k]]])
FirstSeen(id) == CHOOSE k \in DOMAIN SeenItems :
                    SeenItems[k].id = id /\ \A j \in 1..(k - 1) : SeenItems[j].id # id
LastSeen(id) == CHOOSE k \in DOMAIN SeenItems :
                    SeenItems[k].id = id /\ \A j \in (k + 1)..Len(SeenItems) : SeenItems[j].id # id

C15_OneItemPerContentId ==
    catalog_client.pc = "done" =>
        /\ catalog_client.out.outcome = "returned"
        /\ LET result == catalog_client.out.value
           IN  /\ {result[k].id : k \in DOMAIN result} = {SeenItems[k].id : k \in DOMAIN SeenItems}
               /\ \A i, j \in DOMAIN result : result[i].id = result[j].id => i = j
               /\ \A i \in DOMAIN result : result[i] = SeenItems[LastSeen(result[i].id)]
               /\ \A i, j \in DOMAIN result :
                     i < j => FirstSeen(result[i].id) < FirstSeen(result[j].id)

C15_Witness ==
    /\ catalog_client.pc = "done"
    /\ Len(catalog_client.contents[CatalogOrder[1]]) > GET_CONTENT_METADATA_PAGE_SIZE
    /\ Len(catalog_client.out.value) = 2
    /\ catalog_client.out.value[1].id = SeenItems[1].id
    /\ catalog_client.out.value[1] # SeenItems[1]
    /\ LastSeen(SeenItems[1].id) > FirstSeen(catalog_client.out.value[2].id)

\* C18: get_enterprise_catalog does not raise when its GET fails with a
\* Slumber, connection or timeout error: it returns {} whether
\* should_raise_exception is true or false, and the flag only decides
\* whether the failure is logged.
catalog_last == catalog_client.last

C18_GetEnterpriseCatalogNeverRaises ==
    (catalog_last.op = "get_enterprise_catalog" /\ catalog_last.got.kind # "ok") =>
        /\ catalog_last.out.outcome = "returned"
        /\ DOMAIN catalog_last.out.value = {}
        /\ catalog_last.logged = catalog_last.flag

C18_Witness ==
    /\ catalog_last.op = "get_enterprise_catalog"
    /\ catalog_last.got.kind = "Timeout"
    /\ catalog_last.flag
    /\ catalog_last.out.outcome = "returned"
    /\ catalog_last.logged

====
